---- MODULE Spec2Model ----
(***************************************************************************)
(* Multi-agent orchestrator (app/backend/agents/orchestrator.py).          *)
(*                                                                         *)
(* A query is classified by a router agent, answered by one of three       *)
(* specialists, and the specialist's response is normalised into           *)
(* (route, response_text, sources).  The module models run_single_query,   *)
(* the interactive loop run_orchestrator, and the helpers extract_text,    *)
(* run_agent and route_query.                                              *)
(*                                                                         *)
(* Texts are sequences of one-character strings, so that substring tests,  *)
(* strip() and lower() are computed and not assumed.                       *)
(***************************************************************************)
EXTENDS Naturals, Sequences, FiniteSets, TLC

VARIABLES
    mode,           \* "single": run_single_query, "loop": run_orchestrator, "text": extract_text alone
    pc,             \* position in the running function
    held,           \* stack of the handles entered by the async with blocks and not yet exited
    exc,            \* exception in flight ("none" when there is none)
    attempt,        \* run_agent: number of agent.run calls made by the current run_agent call
    calls,          \* the agent.run calls made for the current query, in order
    reply,          \* the value run_agent last returned (the local `response`)
    routeText,      \* route_query's local `route`: the normalised router text
    route,          \* the label route_query returned ("none" before the first)
    response_text,  \* extract_text's result
    sources,        \* run_single_query's local `sources`
    tier,           \* which blocks of the source extraction appended to `sources`
    line,           \* run_orchestrator's local `query` (the stripped input line)
    reads,          \* number of input() calls made so far
    out,            \* the last thing printed to the console
    caught          \* the exception the loop's try last caught ("none" before the first)

vars == <<mode, pc, held, exc, attempt, calls, reply, routeText, route,
          response_text, sources, tier, line, reads, out, caught>>

----------------------------------------------------------------------------
(* Bounds of the model *)

\* longest router text, in fragments of RouteFragments
MaxFrags == 2
\* longest citations sequence of a specialist response
MaxCitations == 2
\* longest context sequence of a specialist response
MaxContext == 1
\* longest grounding_data sequence of a specialist response
MaxGrounding == 1
\* number of input() calls of one interactive session
MaxReads == 2

----------------------------------------------------------------------------
(* Python values *)

\* The value of a `text` or `content` attribute: a str (s, a sequence of
\* characters), an int (n), None, some other object ("obj"), or no such
\* attribute at all ("absent").
StrV(s) == [tag |-> "str", s |-> s, n |-> 0]
IntV(n) == [tag |-> "int", s |-> <<>>, n |-> n]
NoneV == [tag |-> "none", s |-> <<>>, n |-> 0]
AbsentV == [tag |-> "absent", s |-> <<>>, n |-> 0]
ObjV == [tag |-> "obj", s |-> <<>>, n |-> 0]

\* hasattr(x, name), given the value of the attribute
HasAttr(v) == v.tag # "absent"

\* isinstance(v, str)
IsStr(v) == v.tag = "str"

Digit(d) == CASE d = 0 -> "0" [] d = 1 -> "1" [] d = 2 -> "2" [] d = 3 -> "3"
              [] d = 4 -> "4" [] d = 5 -> "5" [] d = 6 -> "6" [] d = 7 -> "7"
              [] d = 8 -> "8" [] OTHER -> "9"

RECURSIVE Digits(_)
Digits(n) == IF n < 10 THEN <<Digit(n)>> ELSE Digits(n \div 10) \o <<Digit(n % 10)>>

\* what str() gives for an object without __str__: "<obj>"
ObjRepr == <<"<", "o", "b", "j", ">">>

\* str(v)
PyStr(v) ==
    CASE v.tag = "str" -> v.s
      [] v.tag = "int" -> Digits(v.n)
      [] v.tag = "none" -> <<"N", "o", "n", "e">>
      [] OTHER -> ObjRepr

----------------------------------------------------------------------------
(* str.strip(), str.lower(), `sub in s` *)

IsSpace(c) == c \in {" ", "\t", "\n"}

LowerChar(c) ==
    CASE c = "A" -> "a" [] c = "B" -> "b" [] c = "C" -> "c" [] c = "D" -> "d"
      [] c = "E" -> "e" [] c = "F" -> "f" [] c = "G" -> "g" [] c = "H" -> "h"
      [] c = "I" -> "i" [] c = "J" -> "j" [] c = "K" -> "k" [] c = "L" -> "l"
      [] c = "M" -> "m" [] c = "N" -> "n" [] c = "O" -> "o" [] c = "P" -> "p"
      [] c = "Q" -> "q" [] c = "R" -> "r" [] c = "S" -> "s" [] c = "T" -> "t"
      [] c = "U" -> "u" [] c = "V" -> "v" [] c = "W" -> "w" [] c = "X" -> "x"
      [] c = "Y" -> "y" [] c = "Z" -> "z" [] OTHER -> c

Lower(s) == [i \in 1..Len(s) |-> LowerChar(s[i])]

RECURSIVE LStrip(_)
LStrip(s) == IF s # <<>> /\ IsSpace(Head(s)) THEN LStrip(Tail(s)) ELSE s

RECURSIVE RStrip(_)
RStrip(s) ==
    IF s # <<>> /\ IsSpace(s[Len(s)]) THEN RStrip(SubSeq(s, 1, Len(s) - 1)) ELSE s

Strip(s) == RStrip(LStrip(s))

\* sub in s
Contains(s, sub) ==
    \E i \in 1..(Len(s) + 1) :
        /\ i + Len(sub) - 1 <= Len(s)
        /\ SubSeq(s, i, i + Len(sub) - 1) = sub

----------------------------------------------------------------------------
(* Responses of agent.run *)

\* The value of an attribute of a citation, context or grounding entry: a
\* str (s, a TLA+ string; no character of it is ever inspected), an int
\* (n), None, or no such attribute.
FStr(s) == [tag |-> "str", s |-> s, n |-> 0]
FInt(n) == [tag |-> "int", s |-> "", n |-> n]
FNone == [tag |-> "none", s |-> "", n |-> 0]
FAbsent == [tag |-> "absent", s |-> "", n |-> 0]

\* getattr(entry, name, None): a missing attribute reads as None
GetAttr(v) == IF v.tag = "absent" THEN FNone ELSE v

\* bool(v) for such a value: None, "" and 0 are falsy
\* variant of Truthy: a test for `is not None` instead of truthiness
TruthyNonNull(v) == v.tag # "none"
Truthy(v) ==
    CASE v.tag = "str" -> v.s # ""
      [] v.tag = "int" -> v.n # 0
      [] OTHER -> FALSE

\* An entry of response.citations, response.context or response.grounding_data
Entry(title, filepath, url, chunk_id, source) ==
    [title |-> title, filepath |-> filepath, url |-> url, chunk_id |-> chunk_id,
     source |-> source]

\* A sequence-valued attribute of a response: a list, None, or no such attribute
ListV(items) == [tag |-> "list", items |-> items]
NoneL == [tag |-> "none", items |-> <<>>]
AbsentL == [tag |-> "absent", items |-> <<>>]

\* hasattr(response, name) and getattr(response, name)
Available(l) == l.tag = "list" /\ l.items # <<>>

\* The value agent.run returns.  isNone: the value is None.  repr: what
\* str(response) gives (the string itself when the value is a str).
Response(isNone, repr, text, content, citations, context, grounding_data) ==
    [isNone |-> isNone, repr |-> repr, text |-> text, content |-> content,
     citations |-> citations, context |-> context, grounding_data |-> grounding_data]

NoResponse == Response(TRUE, <<"N", "o", "n", "e">>, AbsentV, AbsentV, AbsentL, AbsentL, AbsentL)

----------------------------------------------------------------------------
(* extract_text *)

\* variant of extract_text: `content` consulted before `text`
extract_textContentFirst(response) ==
    IF response.isNone THEN <<>>
    ELSE IF HasAttr(response.content)
         THEN IF IsStr(response.content) THEN response.content.s
              ELSE PyStr(response.content)
    ELSE IF HasAttr(response.text) /\ IsStr(response.text) THEN response.text.s
    ELSE response.repr

extract_text(response) ==
    IF response.isNone THEN <<>>
    ELSE IF HasAttr(response.text) /\ IsStr(response.text) THEN response.text.s
    ELSE IF HasAttr(response.content)
         THEN IF IsStr(response.content) THEN response.content.s
              ELSE PyStr(response.content)
    ELSE response.repr

----------------------------------------------------------------------------
(* route_query: the normalisation of the router's text *)

KwHr == <<"h", "r">>
KwMarketing == <<"m", "a", "r", "k", "e", "t", "i", "n", "g">>
KwBrand == <<"b", "r", "a", "n", "d">>
KwCampaign == <<"c", "a", "m", "p", "a", "i", "g", "n">>
KwProduct == <<"p", "r", "o", "d", "u", "c", "t">>

Labels == {"hr", "marketing", "products"}

\* extract_text(response).strip().lower()
NormalizeRoute(response) == Lower(Strip(extract_text(response)))

\* variant of RouteOf: the marketing words tested before "hr"
RouteOfMarketingFirst(t) ==
    IF Contains(t, KwMarketing) \/ Contains(t, KwBrand) \/ Contains(t, KwCampaign)
    THEN "marketing"
    ELSE IF Contains(t, KwHr) THEN "hr"
    ELSE IF Contains(t, KwProduct) THEN "products"
    ELSE "hr"

RouteOf(t) ==
    IF Contains(t, KwHr) THEN "hr"
    ELSE IF Contains(t, KwMarketing) \/ Contains(t, KwBrand) \/ Contains(t, KwCampaign)
    THEN "marketing"
    ELSE IF Contains(t, KwProduct) THEN "products"
    ELSE "hr"

----------------------------------------------------------------------------
(* run_single_query: the extraction of the sources *)

\* kb_map.get(route, "unknown")
kb_map(r) ==
    CASE r = "hr" -> "kb1-hr"
      [] r = "marketing" -> "kb2-marketing"
      [] r = "products" -> "kb3-products"
      [] OTHER -> "unknown"

\* if getattr(entry, attr, None): source_info[key] = entry.attr
Put(info, key, v) == IF Truthy(GetAttr(v)) THEN info @@ (key :> v) ELSE info

\* the body of `for c in response.citations` up to the append
CitationInfo(c, kb_name) ==
    Put(Put(Put(Put([kb |-> kb_name], "title", c.title), "filepath", c.filepath),
            "url", c.url), "chunk_id", c.chunk_id)

\* the body of `for ctx in response.context` up to the append
ContextInfo(ctx, kb_name) ==
    Put(Put([kb |-> kb_name], "title", ctx.title), "filepath", ctx.source)

\* the body of `for gd in response.grounding_data` up to the append
GroundingInfo(gd, kb_name) ==
    Put(Put([kb |-> kb_name], "title", gd.title), "filepath", gd.filepath)

\* if len(source_info) > 1: sources.append(source_info)
AppendInfo(srcs, info) ==
    IF Cardinality(DOMAIN info) > 1 THEN Append(srcs, info) ELSE srcs

RECURSIVE CitationsLoop(_, _, _)
CitationsLoop(items, kb_name, srcs) ==
    IF items = <<>> THEN srcs
    ELSE CitationsLoop(Tail(items), kb_name, AppendInfo(srcs, CitationInfo(Head(items), kb_name)))

RECURSIVE ContextLoop(_, _, _)
ContextLoop(items, kb_name, srcs) ==
    IF items = <<>> THEN srcs
    ELSE ContextLoop(Tail(items), kb_name, AppendInfo(srcs, ContextInfo(Head(items), kb_name)))

RECURSIVE GroundingLoop(_, _, _)
GroundingLoop(items, kb_name, srcs) ==
    IF items = <<>> THEN srcs
    ELSE GroundingLoop(Tail(items), kb_name, AppendInfo(srcs, GroundingInfo(Head(items), kb_name)))

\* the citations block: sources after it
CitationsBlock(response, kb_name, srcs) ==
    IF Available(response.citations)
    THEN CitationsLoop(response.citations.items, kb_name, srcs)
    ELSE srcs

\* variant of ContextBlock: without the `not sources` guard
ContextBlockUnguarded(response, kb_name, srcs) ==
    IF Available(response.context)
    THEN ContextLoop(response.context.items, kb_name, srcs)
    ELSE srcs

\* the context block: sources after it
ContextBlock(response, kb_name, srcs) ==
    IF srcs = <<>> /\ Available(response.context)
    THEN ContextLoop(response.context.items, kb_name, srcs)
    ELSE srcs

\* the grounding_data block: sources after it
GroundingBlock(response, kb_name, srcs) ==
    IF srcs = <<>> /\ Available(response.grounding_data)
    THEN GroundingLoop(response.grounding_data.items, kb_name, srcs)
    ELSE srcs

Doc(kb_name, title, filepath) ==
    [kb |-> kb_name, title |-> FStr(title), filepath |-> FStr(filepath)]

\* default_docs.get(route, [{"kb": kb_name, "title": "Knowledge Base", "filepath": kb_name}])
default_docs(r, kb_name) ==
    CASE r = "hr" ->
           <<Doc(kb_name, "Employee_Handbook.pdf", "hr-policies/Employee_Handbook.pdf"),
             Doc(kb_name, "PTO_Policy_2024.docx", "hr-policies/PTO_Policy_2024.docx"),
             Doc(kb_name, "Benefits_Guide.pdf", "hr-policies/Benefits_Guide.pdf")>>
      [] r = "marketing" ->
           <<Doc(kb_name, "Brand_Guidelines.pdf", "marketing/Brand_Guidelines.pdf"),
             Doc(kb_name, "Campaign_Playbook.pptx", "marketing/Campaign_Playbook.pptx")>>
      [] r = "products" ->
           <<Doc(kb_name, "Product_Catalog_2024.xlsx", "products/Product_Catalog_2024.xlsx"),
             Doc(kb_name, "Specifications.pdf", "products/Specifications.pdf")>>
      [] OTHER -> <<Doc(kb_name, "Knowledge Base", kb_name)>>

\* variant of FallbackBlock: no static documents
FallbackBlockMissing(r, kb_name, srcs) == srcs

\* the fallback block: sources after it
FallbackBlock(r, kb_name, srcs) ==
    IF srcs = <<>> THEN default_docs(r, kb_name) ELSE srcs

----------------------------------------------------------------------------
(* The values the environment supplies *)

RECURSIVE Concat(_)
Concat(ss) == IF ss = <<>> THEN <<>> ELSE Head(ss) \o Concat(Tail(ss))

\* pieces of a router answer; "h" and "r" apart let "hr" arise across pieces
RouteFragments ==
    { KwHr, <<"H", "R">>, <<"h">>, <<"r">>, <<" ">>, KwBrand,
      <<"M", "a", "r", "k", "e", "t", "i", "n", "g">>, KwCampaign, KwProduct, <<"x">> }

SeqsUpTo(S, n) == UNION { [1..k -> S] : k \in 0..n }

TextsUpTo(n) == { Concat(fs) : fs \in SeqsUpTo(RouteFragments, n) }

TextResponse(t) == Response(FALSE, ObjRepr, StrV(t), AbsentV, AbsentL, AbsentL, AbsentL)
ContentResponse(t) == Response(FALSE, ObjRepr, AbsentV, StrV(t), AbsentL, AbsentL, AbsentL)
StrResponse(t) == Response(FALSE, t, AbsentV, AbsentV, AbsentL, AbsentL, AbsentL)
OpaqueResponse == Response(FALSE, ObjRepr, AbsentV, AbsentV, AbsentL, AbsentL, AbsentL)

\* what agent.run may return for the router: every shape extract_text
\* tells apart, around texts of up to n fragments
RouterResponses(n) ==
    {NoResponse, OpaqueResponse}
      \cup { TextResponse(t) : t \in TextsUpTo(n) }
      \cup { ContentResponse(t) : t \in TextsUpTo(n) }
      \cup { StrResponse(t) : t \in TextsUpTo(n) }

\* values of a `text` or `content` attribute
AttrValues ==
    {AbsentV, NoneV, IntV(0), IntV(42), ObjV} \cup { StrV(t) : t \in TextsUpTo(1) }

\* the responses extract_text is applied to on its own
TextResponses ==
    {NoResponse}
      \cup { Response(FALSE, r, t, c, AbsentL, AbsentL, AbsentL) :
               r \in {ObjRepr, KwHr}, t \in AttrValues, c \in AttrValues }

\* entries of response.citations: nothing usable (missing and None
\* attributes), only an empty title and a chunk_id of 0, a title beside a
\* chunk_id of 0, and all four attributes
CitationEntries ==
    { Entry(FAbsent, FNone, FNone, FAbsent, FAbsent),
      Entry(FStr(""), FAbsent, FNone, FInt(0), FAbsent),
      Entry(FStr("Doc.pdf"), FAbsent, FNone, FInt(0), FAbsent),
      Entry(FStr("Doc.pdf"), FStr("kb/Doc.pdf"), FStr("https://kb/doc"), FInt(7), FAbsent) }

\* entries of response.context: nothing usable, and a title with a source
\* (beside a filepath attribute, which the code does not read)
ContextEntries ==
    { Entry(FStr(""), FAbsent, FAbsent, FAbsent, FNone),
      Entry(FStr("A"), FStr("ignored"), FAbsent, FAbsent, FStr("ctx/a.md")) }

\* entries of response.grounding_data: nothing usable, and a title with a
\* filepath (beside a url, which the code does not read)
GroundingEntries ==
    { Entry(FStr(""), FNone, FAbsent, FAbsent, FAbsent),
      Entry(FStr("G"), FStr("g/G.pdf"), FStr("https://kb/g"), FAbsent, FAbsent) }

ListValues(S, n) == {AbsentL, NoneL} \cup { ListV(items) : items \in SeqsUpTo(S, n) }

\* what agent.run may return for a specialist
SpecialistResponses ==
    {NoResponse, ContentResponse(<<"o", "k">>)}
      \cup { Response(FALSE, ObjRepr, StrV(<<"o", "k">>), AbsentV, ci, cx, gd) :
               ci \in ListValues(CitationEntries, MaxCitations),
               cx \in ListValues(ContextEntries, MaxContext),
               gd \in ListValues(GroundingEntries, MaxGrounding) }

\* The loop of run_orchestrator reads nothing of a response but its text,
\* and is run over the responses that differ in it.
LoopResponses == {NoResponse, ContentResponse(<<"o", "k">>), TextResponse(<<"o", "k">>)}

\* what input() may return
InputLines ==
    { <<>>, <<" ", "\t">>,
      <<"q", "u", "i", "t">>, <<" ", "Q", "u", "i", "T", " ">>,
      <<"e", "x", "i", "t">>, <<"E", "X", "I", "T">>,
      <<"q">>, <<"Q", "\n">>,
      <<"q", "u", "i", "t", " ", "x">>, <<"p", "t", "o">> }

\* the exceptions of the model: a calling-convention mismatch, any other
\* Exception (network, auth, service), and the interrupt
Failures == {"TypeError", "Error", "KeyboardInterrupt"}

----------------------------------------------------------------------------
(* Handles: the async with blocks of run_single_query and run_orchestrator *)

\* the order in which the context managers are entered
HandleOrder == <<"credential", "client", "hr_kb", "marketing_kb", "products_kb">>

Range(f) == { f[i] : i \in DOMAIN f }

\* the context provider a specialist is built on
ProviderOf(label) ==
    CASE label = "hr" -> "hr_kb"
      [] label = "marketing" -> "marketing_kb"
      [] OTHER -> "products_kb"

\* the handles an agent's run goes through
HandlesOf(agent) ==
    IF agent = "router" THEN {"credential", "client"}
    ELSE {"credential", "client", ProviderOf(agent)}

\* variant of ExitScope: the credential is never closed
ExitScopeKeepsCredential(h) == IF Len(h) = 1 THEN h ELSE SubSeq(h, 1, Len(h) - 1)

\* __aexit__ of the innermost open context manager
ExitScope(h) == SubSeq(h, 1, Len(h) - 1)

\* where the function ends once the outermost block is left: it returns, or
\* the exception e leaves it
Ended(e) == IF e = "none" THEN "returned" ELSE "raised"

----------------------------------------------------------------------------
(* Exceptions *)

\* variant of LoopHandler: every exception ends the loop
LoopHandlerBreaksOnError(e) == "break"

\* run_orchestrator's except clauses: KeyboardInterrupt breaks, any other
\* Exception is printed and the loop goes on
LoopHandler(e) == IF e = "KeyboardInterrupt" THEN "break" ELSE "continue"

\* An exception e leaves the body of the with block.  In run_single_query
\* nothing catches it; in the loop of run_orchestrator the try does.
\* `calls` is the record of the query being resolved: cs in run_single_query,
\* and empty again once the loop is done with the query.
Raise(e, cs) ==
    IF mode = "loop"
    THEN IF LoopHandler(e) = "break"
         THEN /\ out' = "interrupted"
              /\ pc' = "release"
              /\ exc' = "none"
              /\ calls' = <<>>
              /\ caught' = e
         ELSE /\ out' = "error"
              /\ pc' = "read"
              /\ exc' = "none"
              /\ calls' = <<>>
              /\ caught' = e
    ELSE /\ exc' = e
         /\ pc' = "release"
         /\ out' = out
         /\ calls' = cs
         /\ caught' = caught

----------------------------------------------------------------------------
(* async with: entering and leaving *)

Acquire ==
    /\ pc = "acquire"
    /\ held' = Append(held, HandleOrder[Len(held) + 1])
    /\ IF Len(held') < Len(HandleOrder)
       THEN pc' = "acquire" /\ out' = out
       ELSE IF mode = "loop"
            THEN pc' = "read" /\ out' = "banner"
            ELSE pc' = "router" /\ out' = out
    /\ UNCHANGED <<mode, exc, attempt, calls, reply, routeText, route,
                   response_text, sources, tier, line, reads, caught>>

\* __aenter__ (or the constructor) of the next context manager raises
AcquireFail ==
    /\ pc = "acquire"
    /\ \E e \in {"Error", "KeyboardInterrupt"} :
        /\ exc' = e
        /\ pc' = IF held = <<>> THEN Ended(e) ELSE "release"
    /\ UNCHANGED <<mode, held, attempt, calls, reply, routeText, route,
                   response_text, sources, tier, line, reads, out, caught>>

Release ==
    /\ pc = "release"
    /\ held # <<>>
    /\ held' = ExitScope(held)
    /\ pc' = IF Len(held) > 1 THEN "release" ELSE Ended(exc)
    /\ UNCHANGED <<mode, exc, attempt, calls, reply, routeText, route,
                   response_text, sources, tier, line, reads, out, caught>>

----------------------------------------------------------------------------
(* run_agent *)

\* variant of Retries: the first run is retried whatever it raised
RetriesAnyFailure(e, n) == n = 0

\* `except TypeError` around the first agent.run: n calls were made before
Retries(e, n) == e = "TypeError" /\ n = 0

\* the record of one agent.run call
Call(agent, n, outcome) ==
    [agent |-> agent,
     arg |-> IF n = 0 THEN "message" ELSE "list",
     outcome |-> outcome,
     live |-> HandlesOf(agent) \subseteq Range(held)]

\* agent.run returns r
RunReturns(agent, r, next) ==
    /\ calls' = Append(calls, Call(agent, attempt, "ok"))
    /\ attempt' = 0
    /\ reply' = r
    /\ pc' = next
    /\ UNCHANGED <<exc, out, caught>>

\* agent.run raises e
RunRaises(agent, e) ==
    /\ reply' = reply
    /\ IF Retries(e, attempt)
       THEN /\ attempt' = attempt + 1
            /\ calls' = Append(calls, Call(agent, attempt, e))
            /\ UNCHANGED <<pc, exc, out, caught>>
       ELSE /\ attempt' = 0
            /\ Raise(e, Append(calls, Call(agent, attempt, e)))

----------------------------------------------------------------------------
(* route_query *)

\* response = await run_agent(router, query)
RouterRun ==
    /\ pc = "router"
    /\ \/ \E r \in RouterResponses(IF mode = "loop" THEN 1 ELSE MaxFrags) :
            RunReturns("router", r, "classify")
       \/ \E e \in Failures : RunRaises("router", e)
    /\ UNCHANGED <<mode, held, routeText, route, response_text, sources, tier,
                   line, reads>>

\* route = extract_text(response).strip().lower() and the keyword tests; the
\* router's response is not read again
Classify ==
    /\ pc = "classify"
    /\ routeText' = NormalizeRoute(reply)
    /\ route' = RouteOf(NormalizeRoute(reply))
    /\ reply' = NoResponse
    /\ pc' = "routed"
    /\ UNCHANGED <<mode, held, exc, attempt, calls, response_text,
                   sources, tier, line, reads, out, caught>>

\* route_query has returned: its local text is gone, and the loop prints
\* the routing decision
Routed ==
    /\ pc = "routed"
    /\ routeText' = <<>>
    /\ pc' = "specialist"
    /\ out' = IF mode = "loop" THEN "routing" ELSE out
    /\ UNCHANGED <<mode, held, exc, attempt, calls, reply, route, response_text,
                   sources, tier, line, reads, caught>>

----------------------------------------------------------------------------
(* the specialist *)

\* variant of Specialist: the hr specialist whatever the route
SpecialistAlwaysHr(r) == "hr"

\* specialists[route]
Specialist(r) == r

\* response = await run_agent(specialists[route], query)
SpecialistRun ==
    /\ pc = "specialist"
    /\ \/ \E r \in (IF mode = "loop" THEN LoopResponses ELSE SpecialistResponses) :
            RunReturns(Specialist(route), r, "text")
       \/ \E e \in Failures : RunRaises(Specialist(route), e)
    /\ UNCHANGED <<mode, held, routeText, route, response_text, sources, tier,
                   line, reads>>

\* response_text = extract_text(response); the loop prints it and reads on
ExtractText ==
    /\ pc = "text"
    /\ response_text' = extract_text(reply)
    /\ pc' = CASE mode = "single" -> "citations"
               [] mode = "loop" -> "read"
               [] OTHER -> "done"
    /\ out' = IF mode = "loop" THEN "response" ELSE out
    /\ calls' = IF mode = "loop" THEN <<>> ELSE calls
    /\ UNCHANGED <<mode, held, exc, attempt, reply, routeText, route,
                   sources, tier, line, reads, caught>>

----------------------------------------------------------------------------
(* run_single_query: sources *)

\* sources = []; kb_name = kb_map.get(route, "unknown"); the citations block
Citations ==
    /\ pc = "citations"
    /\ sources' = CitationsBlock(reply, kb_map(route), <<>>)
    /\ tier' = IF sources' # <<>> THEN {"citations"} ELSE {}
    /\ pc' = "context"
    /\ UNCHANGED <<mode, held, exc, attempt, calls, reply, routeText, route,
                   response_text, line, reads, out, caught>>

Context ==
    /\ pc = "context"
    /\ sources' = ContextBlock(reply, kb_map(route), sources)
    /\ tier' = IF sources' # sources THEN tier \cup {"context"} ELSE tier
    /\ pc' = "grounding"
    /\ UNCHANGED <<mode, held, exc, attempt, calls, reply, routeText, route,
                   response_text, line, reads, out, caught>>

Grounding ==
    /\ pc = "grounding"
    /\ sources' = GroundingBlock(reply, kb_map(route), sources)
    /\ tier' = IF sources' # sources THEN tier \cup {"grounding_data"} ELSE tier
    /\ pc' = "fallback"
    /\ UNCHANGED <<mode, held, exc, attempt, calls, reply, routeText, route,
                   response_text, line, reads, out, caught>>

Fallback ==
    /\ pc = "fallback"
    /\ sources' = FallbackBlock(route, kb_map(route), sources)
    /\ tier' = IF sources' # sources THEN tier \cup {"fallback"} ELSE tier
    /\ pc' = "return"
    /\ UNCHANGED <<mode, held, exc, attempt, calls, reply, routeText, route,
                   response_text, line, reads, out, caught>>

\* return route, response_text, sources: the frame's `response` is dropped
\* and the with blocks are left
Return ==
    /\ pc = "return"
    /\ reply' = NoResponse
    /\ pc' = "release"
    /\ UNCHANGED <<mode, held, exc, attempt, calls, routeText, route,
                   response_text, sources, tier, line, reads, out, caught>>

----------------------------------------------------------------------------
(* run_orchestrator: the loop *)

QuitWords == { <<"q", "u", "i", "t">>, <<"e", "x", "i", "t">>, <<"q">> }

\* variant of IsQuit: without lower()
IsQuitCaseSensitive(query) == query \in QuitWords

\* query.lower() in {"quit", "exit", "q"}
IsQuit(query) == Lower(query) \in QuitWords

\* query = input(...).strip(), and the two tests on it
Read ==
    /\ pc = "read"
    /\ reads < MaxReads
    /\ reads' = reads + 1
    /\ \E raw \in InputLines :
        /\ line' = Strip(raw)
        /\ IF Strip(raw) = <<>>
           THEN UNCHANGED <<pc, out, calls>>
           ELSE IF IsQuit(Strip(raw))
                THEN pc' = "release" /\ out' = "goodbye" /\ calls' = calls
                ELSE pc' = "router" /\ out' = out /\ calls' = calls
    /\ UNCHANGED <<mode, held, exc, attempt, reply, routeText, route,
                   response_text, sources, tier, caught>>

\* input() raises: EOFError at the end of the input, or the interrupt
ReadRaises ==
    /\ pc = "read"
    /\ reads < MaxReads
    /\ reads' = reads + 1
    /\ \E e \in {"Error", "KeyboardInterrupt"} : Raise(e, calls)
    /\ UNCHANGED <<mode, held, attempt, reply, routeText, route,
                   response_text, sources, tier, line>>

----------------------------------------------------------------------------
(* Specifications *)

Init ==
    /\ mode \in {"single", "loop"}
    /\ pc = "acquire"
    /\ held = <<>>
    /\ exc = "none"
    /\ attempt = 0
    /\ calls = <<>>
    /\ reply = NoResponse
    /\ routeText = <<>>
    /\ route = "none"
    /\ response_text = <<>>
    /\ sources = <<>>
    /\ tier = {}
    /\ line = <<>>
    /\ reads = 0
    /\ out = "none"
    /\ caught = "none"

Next ==
    \/ Acquire
    \/ AcquireFail
    \/ Release
    \/ RouterRun
    \/ Classify
    \/ Routed
    \/ SpecialistRun
    \/ ExtractText
    \/ Citations
    \/ Context
    \/ Grounding
    \/ Fallback
    \/ Return
    \/ Read
    \/ ReadRaises

Spec == Init /\ [][Next]_vars

\* extract_text on its own, applied to every response of TextResponses
InitText ==
    /\ mode = "text"
    /\ pc = "text"
    /\ held = <<>>
    /\ exc = "none"
    /\ attempt = 0
    /\ calls = <<>>
    /\ reply \in TextResponses
    /\ routeText = <<>>
    /\ route = "none"
    /\ response_text = <<>>
    /\ sources = <<>>
    /\ tier = {}
    /\ line = <<>>
    /\ reads = 0
    /\ out = "none"
    /\ caught = "none"

NextText == ExtractText

SpecText == InitText /\ [][NextText]_vars

----------------------------------------------------------------------------
(* Properties *)

\* kw occurs in t at some offset
Occurs(t, kw) ==
    \E off \in 0..Len(t) :
        /\ off + Len(kw) <= Len(t)
        /\ \A j \in 1..Len(kw) : t[off + j] = kw[j]

OccursMarketing(t) ==
    Occurs(t, KwMarketing) \/ Occurs(t, KwBrand) \/ Occurs(t, KwCampaign)

\* C1: once route_query has classified the normalised router text t, its
\* result is the label of the first rule that matches, in the order: "hr" if
\* t contains "hr", whatever else it contains; else "marketing" if t
\* contains "marketing", "brand" or "campaign"; else "products" if t
\* contains "product"; else "hr".  The result is one of the three labels.
C1_FirstMatchWins ==
    pc = "routed" =>
        /\ route \in Labels
        /\ \A i \in DOMAIN routeText : routeText[i] \notin {"H", "R", "M"}
        /\ routeText # <<>> =>
              routeText[1] # " " /\ routeText[Len(routeText)] # " "
        /\ Occurs(routeText, KwHr) => route = "hr"
        /\ ~Occurs(routeText, KwHr) /\ OccursMarketing(routeText) => route = "marketing"
        /\ ( /\ ~Occurs(routeText, KwHr)
             /\ ~OccursMarketing(routeText)
             /\ Occurs(routeText, KwProduct) ) => route = "products"
        /\ ( /\ ~Occurs(routeText, KwHr)
             /\ ~OccursMarketing(routeText)
             /\ ~Occurs(routeText, KwProduct) ) => route = "hr"

\* a router text holding both "hr" and "campaign" has been classified as hr
C1_Witness ==
    /\ pc = "routed"
    /\ Occurs(routeText, KwHr)
    /\ Occurs(routeText, KwCampaign)
    /\ route = "hr"

\* s is a string: a finite sequence of characters
IsText(s) == DOMAIN s = 1..Len(s) /\ \A i \in DOMAIN s : s[i] \in STRING

\* C5: extract_text gives "" for None; else the `text` attribute when it is
\* a str, whatever `content` holds; else, when there is a `content`
\* attribute, that content if it is a str and str(content) if not; else
\* str(response).  The result is a string in every case.
C5_ExtractTextRules ==
    (mode = "text" /\ pc = "done") =>
        /\ IsText(response_text)
        /\ reply.isNone => response_text = <<>>
        /\ (~reply.isNone /\ reply.text.tag = "str") => response_text = reply.text.s
        /\ ( /\ ~reply.isNone
             /\ reply.text.tag # "str"
             /\ reply.content.tag = "str" ) => response_text = reply.content.s
        /\ ( /\ ~reply.isNone
             /\ reply.text.tag # "str"
             /\ reply.content.tag \in {"int", "none", "obj"} )
               => response_text = PyStr(reply.content)
        /\ ( /\ ~reply.isNone
             /\ reply.text.tag # "str"
             /\ reply.content.tag = "absent" ) => response_text = reply.repr

\* a response with a str `text` and a different str `content` gave its text
C5_Witness ==
    /\ mode = "text"
    /\ pc = "done"
    /\ reply.text.tag = "str"
    /\ reply.content.tag = "str"
    /\ reply.content.s # reply.text.s
    /\ response_text = reply.text.s

\* the value counts for the code: it is not None, not "" and not 0
Informative(v) == (v.tag = "str" /\ v.s # "") \/ (v.tag = "int" /\ v.n # 0)

\* the attribute is present and is not None
NonNull(v) == v.tag \notin {"absent", "none"}

CitationFields == {"title", "filepath", "url", "chunk_id"}

UsableCitation(c) == \E f \in CitationFields : Informative(c[f])
UsableContext(c) == Informative(c.title) \/ Informative(c.source)
UsableGrounding(c) == Informative(c.title) \/ Informative(c.filepath)

\* number of records a sequence-valued attribute yields
Yield(l, Usable(_)) == IF l.tag = "list" THEN Len(SelectSeq(l.items, Usable)) ELSE 0

Titles(srcs) == [i \in 1..Len(srcs) |-> srcs[i].title.s]

\* C2: the sources run_single_query returns are never empty, and when
\* citations, context and grounding_data are absent, empty or hold only
\* discarded entries they are the static list of the route: for hr
\* Employee_Handbook.pdf, PTO_Policy_2024.docx, Benefits_Guide.pdf, for
\* marketing Brand_Guidelines.pdf, Campaign_Playbook.pptx, for products two
\* documents.
C2_SourcesNeverEmpty ==
    /\ (mode = "single" /\ pc \in {"release", "returned"} /\ exc = "none")
          => sources # <<>>
    /\ (mode = "single" /\ pc = "return") =>
          /\ sources # <<>>
          /\ ( /\ Yield(reply.citations, UsableCitation) = 0
               /\ Yield(reply.context, UsableContext) = 0
               /\ Yield(reply.grounding_data, UsableGrounding) = 0 ) =>
                 /\ \A i \in DOMAIN sources :
                        DOMAIN sources[i] = {"kb", "title", "filepath"}
                 /\ route = "hr" =>
                        Titles(sources) = <<"Employee_Handbook.pdf",
                                            "PTO_Policy_2024.docx",
                                            "Benefits_Guide.pdf">>
                 /\ route = "marketing" =>
                        Titles(sources) = <<"Brand_Guidelines.pdf",
                                            "Campaign_Playbook.pptx">>
                 /\ route = "products" => Len(sources) = 2

\* a marketing answer whose citations were all discarded got the two
\* marketing documents
C2_Witness ==
    /\ mode = "single"
    /\ pc = "return"
    /\ route = "marketing"
    /\ reply.citations.tag = "list"
    /\ reply.citations.items # <<>>
    /\ Yield(reply.citations, UsableCitation) = 0
    /\ Yield(reply.context, UsableContext) = 0
    /\ Yield(reply.grounding_data, UsableGrounding) = 0
    /\ Titles(sources) = <<"Brand_Guidelines.pdf", "Campaign_Playbook.pptx">>

\* every field of the record rec beyond kb is the value of the attribute
\* From[field] of one entry of items
TakenFrom(rec, items, From) ==
    \E i \in DOMAIN items :
        \A k \in DOMAIN rec \ {"kb"} : rec[k] = items[i][From[k]]

\* C3: the returned sources come from one single block: from citations when
\* citations yield a record; from context only when citations yield none
\* and context yields one; from grounding_data only when neither of the two
\* yields one; and they are the static list only when none of the three
\* yields a record.
C3_FirstTierOnly ==
    (mode = "single" /\ pc = "return") =>
        LET nc == Yield(reply.citations, UsableCitation)
            nx == Yield(reply.context, UsableContext)
            ng == Yield(reply.grounding_data, UsableGrounding)
        IN  /\ Cardinality(tier) = 1
            /\ "citations" \in tier <=> nc > 0
            /\ "context" \in tier <=> (nc = 0 /\ nx > 0)
            /\ "grounding_data" \in tier <=> (nc = 0 /\ nx = 0 /\ ng > 0)
            /\ "fallback" \in tier <=> (nc = 0 /\ nx = 0 /\ ng = 0)
            /\ "citations" \in tier =>
                  /\ Len(sources) = nc
                  /\ \A i \in DOMAIN sources :
                        TakenFrom(sources[i], reply.citations.items,
                                  [k \in CitationFields |-> k])
            /\ "context" \in tier =>
                  /\ Len(sources) = nx
                  /\ \A i \in DOMAIN sources :
                        TakenFrom(sources[i], reply.context.items,
                                  [title |-> "title", filepath |-> "source"])
            /\ "grounding_data" \in tier =>
                  /\ Len(sources) = ng
                  /\ \A i \in DOMAIN sources :
                        TakenFrom(sources[i], reply.grounding_data.items,
                                  [title |-> "title", filepath |-> "filepath"])

\* the citations were all discarded, context and grounding_data both had a
\* usable entry, and the sources are those of context alone
C3_Witness ==
    /\ mode = "single"
    /\ pc = "return"
    /\ reply.citations.tag = "list"
    /\ reply.citations.items # <<>>
    /\ Yield(reply.citations, UsableCitation) = 0
    /\ Yield(reply.context, UsableContext) > 0
    /\ Yield(reply.grounding_data, UsableGrounding) > 0
    /\ tier = {"context"}
    /\ sources[1].filepath = FStr("ctx/a.md")

\* the knowledge-base identifier of a label
KbId(label) ==
    CASE label = "hr" -> "kb1-hr"
      [] label = "marketing" -> "kb2-marketing"
      [] label = "products" -> "kb3-products"

\* the record of a citation entry: kb, and the fields that count by Counts
CitationRecord(c, label, Counts(_)) ==
    [k \in {"kb"} \cup { f \in CitationFields : Counts(c[f]) } |->
        IF k = "kb" THEN KbId(label) ELSE c[k]]

\* the records of a citations sequence: one per entry with a field that counts
CitationRecords(items, label, Counts(_)) ==
    LET kept == SelectSeq(items, LAMBDA c : \E f \in CitationFields : Counts(c[f]))
    IN  [i \in 1..Len(kept) |-> CitationRecord(kept[i], label, Counts)]

\* C4, as claimed: the records built from a non-empty citations sequence are,
\* entry by entry, kb with the fields that are present and not None, the
\* entries with no such field being skipped.
C4_AsClaimed ==
    (mode = "single" /\ pc = "context" /\ Available(reply.citations)) =>
        sources = CitationRecords(reply.citations.items, route, NonNull)

\* C4, amended: the records built from a non-empty citations sequence are,
\* entry by entry, kb (the identifier mapped from the label) with the fields
\* whose value is truthy (present, not None, not "" and not 0); an entry is
\* skipped if and only if it has no such field, and no record is kb alone.
C4_TruthyFields ==
    (mode = "single" /\ pc = "context" /\ Available(reply.citations)) =>
        /\ sources = CitationRecords(reply.citations.items, route, Informative)
        /\ \A i \in DOMAIN sources :
              /\ sources[i].kb = KbId(route)
              /\ DOMAIN sources[i] # {"kb"}

\* a sequence of two citations, the first with an empty title and a
\* chunk_id of 0 only, the second complete, gave the one record of the second
C4_Witness ==
    /\ mode = "single"
    /\ pc = "context"
    /\ reply.citations.tag = "list"
    /\ Len(reply.citations.items) = 2
    /\ reply.citations.items[1].title = FStr("")
    /\ reply.citations.items[1].chunk_id = FInt(0)
    /\ ~UsableCitation(reply.citations.items[1])
    /\ Len(sources) = 1
    /\ DOMAIN sources[1] = {"kb", "title", "filepath", "url", "chunk_id"}
    /\ sources[1].kb = "kb1-hr"

Last(q) == q[Len(q)]

\* C6: every handle entered for a call of run_single_query is exited on
\* every way out of it: nothing is held once it has returned or raised, and
\* each agent is run while the handles it goes through are still held.
C6_HandlesReleased ==
    /\ pc \in {"returned", "raised"} => held = <<>>
    /\ \A i \in DOMAIN calls : calls[i].live
    /\ pc \in {"router", "classify", "routed", "specialist", "text", "citations",
               "context", "grounding", "fallback", "return", "read"}
          => held = HandleOrder

\* run_single_query has raised after a failure of the specialist, and holds
\* nothing
C6_Witness ==
    /\ mode = "single"
    /\ pc = "raised"
    /\ calls # <<>>
    /\ Last(calls).agent \in Labels
    /\ Last(calls).outcome = "Error"
    /\ held = <<>>

\* C7: for one query, a specialist is run only after a run of the router has
\* returned, the router is not run again afterwards, every specialist run
\* is a run of the specialist of the label route_query returned, and once
\* the specialist has answered exactly one specialist has been run.
C7_RouterThenOneSpecialist ==
    LET specialistRuns == { i \in DOMAIN calls : calls[i].agent # "router" }
    IN  /\ \A i \in specialistRuns :
              /\ calls[i].agent = route
              /\ \E j \in 1..(i - 1) :
                    calls[j].agent = "router" /\ calls[j].outcome = "ok"
              /\ \A j \in DOMAIN calls : j > i => calls[j].agent # "router"
        /\ Cardinality({ calls[i].agent : i \in specialistRuns }) <= 1
        /\ pc \in {"text", "citations", "context", "grounding", "fallback", "return"}
              => Cardinality({ calls[i].agent : i \in specialistRuns }) = 1
        /\ pc \in {"router", "classify", "routed"} => specialistRuns = {}

\* in the loop, the router returned and then the marketing specialist
\* answered, no other specialist having been run
C7_Witness ==
    /\ mode = "loop"
    /\ pc = "text"
    /\ route = "marketing"
    /\ Len(calls) = 2
    /\ calls[1].agent = "router"
    /\ calls[2].agent = "marketing"

\* a step of the loop that reads a line (and not one in which input() raises)
ReadsLine ==
    /\ mode = "loop"
    /\ pc = "read"
    /\ reads' = reads + 1
    /\ out' \notin {"error", "interrupted"}

\* C8: in the loop, a line that is "quit", "exit" or "q" once trimmed, in any
\* letter case, ends the loop with no agent run for it, and nothing is run
\* afterwards; a line that is empty once trimmed runs no agent and leaves
\* the loop reading the next line.
C8_QuitAndBlankLines ==
    [][ /\ ReadsLine =>
            /\ Lower(line') \in QuitWords =>
                  pc' = "release" /\ out' = "goodbye" /\ calls' = <<>>
            /\ line' = <<>> =>
                  pc' = "read" /\ calls' = <<>> /\ held' = held /\ out' = out
            /\ (line' # <<>> /\ Lower(line') \notin QuitWords) => pc' = "router"
        /\ (mode = "loop" /\ pc = "release" /\ out = "goodbye") =>
              pc' \in {"release", "returned"} /\ calls' = <<>> /\ out' = out
      ]_vars

\* the loop has ended on a line that is "quit" in mixed case
C8_Witness ==
    /\ mode = "loop"
    /\ pc = "returned"
    /\ out = "goodbye"
    /\ line = <<"Q", "u", "i", "T">>
    /\ calls = <<>>

\* a step of the loop in which a run of the router or of the specialist
\* fails and the failure leaves run_agent
FailedRun ==
    /\ mode = "loop"
    /\ pc \in {"router", "specialist"}
    /\ calls' = <<>>

\* C9: in the loop, a failure of the router or of the specialist other than
\* the interrupt is caught and reported, and the loop reads the next query
\* with every handle still held and nothing pending; the interrupt ends
\* the loop.
C9_LoopSurvivesFailure ==
    [][ FailedRun =>
          /\ caught' \in Failures
          /\ exc' = "none"
          /\ caught' = "KeyboardInterrupt" =>
                pc' = "release" /\ out' = "interrupted"
          /\ caught' # "KeyboardInterrupt" =>
                /\ pc' = "read"
                /\ out' = "error"
                /\ held' = held
                /\ attempt' = 0
                /\ reads' = reads
      ]_vars

\* after a failure was caught, a later query has been routed and answered
C9_Witness ==
    /\ mode = "loop"
    /\ caught = "Error"
    /\ out = "routing"
    /\ pc = "text"
    /\ held = HandleOrder
    /\ Len(calls) = 2

\* C10: run_agent runs the agent with the single message first, and a
\* second time, with the one-element list, only after the first run failed
\* with a TypeError: at most two runs, one run when the first returns or
\* fails otherwise, and that failure leaves run_agent (as does a failure of
\* the second run).
C10_RetryOnTypeErrorOnly ==
    /\ \A i \in DOMAIN calls :
          /\ calls[i].arg = "list" =>
                /\ i > 1
                /\ calls[i - 1].agent = calls[i].agent
                /\ calls[i - 1].arg = "message"
                /\ calls[i - 1].outcome = "TypeError"
          /\ (calls[i].arg = "message" /\ calls[i].outcome # "TypeError" /\ i < Len(calls))
                => calls[i + 1].arg = "message"
          /\ (calls[i].outcome # "ok" /\ i < Len(calls)) =>
                /\ calls[i].outcome = "TypeError"
                /\ calls[i].arg = "message"
                /\ calls[i + 1].arg = "list"
    /\ (mode = "single" /\ calls # <<>> /\ Last(calls).outcome # "ok"
          /\ ~(Last(calls).arg = "message" /\ Last(calls).outcome = "TypeError"))
          => exc = Last(calls).outcome /\ pc \in {"release", "raised"}
    /\ attempt \in {0, 1}

\* the router failed with a TypeError on the message and answered the list
C10_Witness ==
    /\ Len(calls) = 2
    /\ calls[1] = [agent |-> "router", arg |-> "message", outcome |-> "TypeError", live |-> TRUE]
    /\ calls[2].agent = "router"
    /\ calls[2].arg = "list"
    /\ calls[2].outcome = "ok"

====
